---- MODULE Spec2Model ----
(***************************************************************************)
(* Matching engine of mom-app: the swipes and matches tables of the store, *)
(* recordSwipe / createMatch of the matching service run by concurrent     *)
(* client sessions, and the candidate filter getPotentialMatches; the      *)
(* messaging service over the messages table; the group service over the   *)
(* group_members and group_messages tables.                                *)
(*                                                                         *)
(* Every store request (one awaited supabase call) is one atomic step of   *)
(* the store; a call of recordSwipe is the sequence of its store requests. *)
(* A store request may fail for a reason that is not a constraint          *)
(* violation (network, store unavailable); supabase-js then resolves with  *)
(* { data: null, error }.                                                  *)
(*                                                                         *)
(* User identifiers are UUID strings.  They are modelled as integers whose *)
(* order < stands for both orders the program uses on them: the store's    *)
(* uuid comparison (CHECK user1_id < user2_id) and JavaScript's default    *)
(* Array.prototype.sort on the canonical lowercase text of the uuid, which *)
(* agree on canonical uuid text.                                           *)
(*                                                                         *)
(* The store has row level security enabled on every table.  A call is     *)
(* made by the signed-in user for herself (the screens pass user.id), so   *)
(* auth.uid() is the user id the call is given, except in markAsRead,      *)
(* which is given a message id only.                                       *)
(*                                                                         *)
(* Timestamps are integers; 0 stands for null and, in the sort of          *)
(* getConversations, for the empty string that replaces a missing time.    *)
(***************************************************************************)
EXTENDS Integers, Sequences, FiniteSets, Bags, TLC

VARIABLES
    profiles,    \* profiles table: user id -> [city, profile_visibility]
    swipes,      \* swipes table: bag of rows [swiper_id, swiped_id, direction]
    matches,     \* matches table: bag of rows [user1_id, user2_id]
    calls,       \* client session -> the recordSwipe call it has in flight
    last,        \* the record of the recordSwipe call that completed last
    ncalls,      \* number of recordSwipe calls started so far
    faults,      \* number of store requests that failed so far
    candidates,  \* the completed getPotentialMatches call its caller has not taken yet
    messages,    \* messages table: bag of rows [sender_id, recipient_id, created_at, read_at]
    group_members,   \* group_members table: bag of rows [group_id, user_id, role]
    group_messages,  \* group_messages table: bag of rows [group_id, sender_id, created_at, deleted_at]
    reply,       \* the completed service call its caller has not taken yet
    kids,            \* kids table: bag of rows [user_id, age]
    user_interests,  \* user_interests table: bag of rows [user_id, interest]
    updates,     \* user -> the updateProfile call she has in flight
    auth_users,  \* auth.users of the identity provider: the users signed up
    channels,    \* the realtime channels the client of user Me has joined
    relayed,     \* the changes of the store the realtime relay has processed
    badge,       \* MainTabNavigator of user Me: its unread badge
    chat,        \* ChatScreen of user Me with user Peer
    gchat        \* GroupChatScreen of user Me in group Room

vars == <<profiles, swipes, matches, calls, last, ncalls, faults, candidates,
          messages, group_members, group_messages, reply,
          kids, user_interests, updates, auth_users,
          channels, relayed, badge, chat, gchat>>

\* the tables and calls of the profile and auth services
accountVars == <<kids, user_interests, updates, auth_users>>

\* the realtime relay and the screens of the client
screenVars == <<channels, relayed, badge, chat, gchat>>

\* the tables and the call record of the messaging and group services
messagingVars == <<messages, group_members, group_messages, reply>>

(* ------------------------------ bounds -------------------------------- *)

\* recordSwipe calls started in one behaviour
MaxCalls == 3
\* store requests that fail in one behaviour
MaxFaults == 1
\* fetchUnreadCount calls in flight when the interval timer starts one more
MaxFetches == 1
\* rows of the messages table, and of the group_messages table
MaxMessages == 2

\* the profiles of the store, and those of them that swipe
Users == {1, 2, 3}
Swipers == {1, 2}
Sessions == {1, 2}
Cities == {"NY", "LA"}
\* profiles.city is nullable: the city of a profile that has none
NullCity == "null"
Directions == {"left", "right"}
Groups == {1, 2}
\* the instants of the clocks: of two timestamps, one is the other's or later
Times == {1, 2}

\* a null column, and the null a request resolves with
Null == 0

\* getPotentialMatches(userId, limit = 20)
DefaultLimit == 20
Limits == {1, DefaultLimit}

(* ------------------------------ the store ----------------------------- *)

\* The uuid primary key of a row is not modelled: a table is the bag of its
\* rows' other columns, so two rows with equal columns are two copies.
SwipeRow(a, b, d) == [swiper_id |-> a, swiped_id |-> b, direction |-> d]
MatchRow(u1, u2) == [user1_id |-> u1, user2_id |-> u2]

\* number of rows of swipes with swiper_id = a and swiped_id = b
NumSwipes(sw, a, b) ==
    CopiesIn(SwipeRow(a, b, "left"), sw) + CopiesIn(SwipeRow(a, b, "right"), sw)

\* number of rows of matches between a and b, in either column order
NumMatches(ms, a, b) ==
    CopiesIn(MatchRow(a, b), ms) + (IF a = b THEN 0 ELSE CopiesIn(MatchRow(b, a), ms))

\* swipes without its UNIQUE(swiper_id, swiped_id)
SwipesInsertErrorNoUnique(sw, a, b, d) ==
    IF d \notin Directions THEN "23514" ELSE "none"

\* swipes: direction CHECK (direction IN ('left','right')), UNIQUE(swiper_id,
\* swiped_id).  The SQLSTATE an insert ends with; "none": the row is stored.
SwipesInsertError(sw, a, b, d) ==
    IF d \notin Directions THEN "23514"
    ELSE IF NumSwipes(sw, a, b) > 0 THEN "23505"
    ELSE "none"

\* matches without its UNIQUE(user1_id, user2_id)
MatchesInsertErrorNoUnique(ms, u1, u2) ==
    IF ~(u1 < u2) THEN "23514" ELSE "none"

\* matches: CHECK (user1_id < user2_id), UNIQUE(user1_id, user2_id).
MatchesInsertError(ms, u1, u2) ==
    IF ~(u1 < u2) THEN "23514"
    ELSE IF CopiesIn(MatchRow(u1, u2), ms) > 0 THEN "23505"
    ELSE "none"

Insert(table, row) == table (+) SetToBag({row})

\* number of rows of a table that are among rows
RECURSIVE SumCopies(_, _)
SumCopies(table, rows) ==
    IF rows = {} THEN 0
    ELSE LET r == CHOOSE x \in rows : TRUE
         IN  CopiesIn(r, table) + SumCopies(table, rows \ {r})

\* content TEXT: the lengths of the contents sent
MaxLength == 2000
Lengths == {0, 1, MaxLength, MaxLength + 1}

\* The content column is not stored in the model's rows: no read of the model
\* depends on it.
MessageRow(s, r, c, t) ==
    [sender_id |-> s, recipient_id |-> r, created_at |-> c, read_at |-> t]

\* created_at DEFAULT NOW(), new Date().toISOString(): the time is that of the
\* latest timestamp stored or later.
Now(ms) ==
    {t \in Times : \A r \in BagToSet(ms) : r.created_at <= t /\ r.read_at <= t}

\* messages without the policy "Users can send messages to matched users"
MessagesInsertErrorNoPolicy(ms, s, r, len) ==
    IF len = 0 \/ len > MaxLength THEN "23514" ELSE "none"

\* messages without the CHECK of the content's length
MessagesInsertErrorNoCheck(ms, s, r, len) ==
    IF NumMatches(ms, s, r) = 0 THEN "42501" ELSE "none"

\* messages: the INSERT policy WITH CHECK (auth.uid() = sender_id AND EXISTS
\* (a matches row of the two)), then CHECK (LENGTH(content) > 0 AND
\* LENGTH(content) <= 2000).  ms is the matches table.
MessagesInsertError(ms, s, r, len) ==
    IF NumMatches(ms, s, r) = 0 THEN "42501"
    ELSE IF len = 0 \/ len > MaxLength THEN "23514"
    ELSE "none"

\* .update({ read_at: t }) of the selected rows of messages
SetReadAt(table, selected, t) ==
    LET new(r) == IF r \in selected THEN [r EXCEPT !.read_at = t] ELSE r
        rows == {new(r) : r \in BagToSet(table)}
    IN  [x \in rows |-> SumCopies(table, {r \in BagToSet(table) : new(r) = x})]

\* the same update of the one row with a given id, a copy of r
SetReadAtOne(table, r, t) ==
    (table (-) SetToBag({r})) (+) SetToBag({[r EXCEPT !.read_at = t]})

MemberRow(g, u, role) == [group_id |-> g, user_id |-> u, role |-> role]
GroupMessageRow(g, u, c, d) ==
    [group_id |-> g, sender_id |-> u, created_at |-> c, deleted_at |-> d]

\* created_at DEFAULT NOW() of group_messages, and the time of a soft delete
GroupNow(gms) ==
    {t \in Times : \A r \in BagToSet(gms) : r.created_at <= t /\ r.deleted_at <= t}

\* the groups table: the city of a group, or none
groups == [g \in Groups |-> [city |-> IF g = 1 THEN "NY" ELSE NullCity]]

NumMembers(gm, g, u) ==
    SumCopies(gm, {r \in BagToSet(gm) : r.group_id = g /\ r.user_id = u})

\* group_members: the INSERT policy WITH CHECK (auth.uid() = user_id AND
\* role = 'pending'), then UNIQUE(group_id, user_id).
GroupMembersInsertError(gm, g, u, role) ==
    IF role # "pending" THEN "42501"
    ELSE IF NumMembers(gm, g, u) > 0 THEN "23505"
    ELSE "none"

\* group_messages: the INSERT policy WITH CHECK (auth.uid() = sender_id AND
\* EXISTS (a group_members row of the sender with role admin or member)),
\* then CHECK (LENGTH(content) > 0 AND LENGTH(content) <= 2000).
GroupMessagesInsertError(gm, g, u, len) ==
    IF CopiesIn(MemberRow(g, u, "admin"), gm) + CopiesIn(MemberRow(g, u, "member"), gm) = 0
    THEN "42501"
    ELSE IF len = 0 \/ len > MaxLength THEN "23514"
    ELSE "none"

\* the policy "Group members can read group messages" without its
\* deleted_at IS NULL
GroupMessagesSelectDeleted(gm, uid, r) ==
    CopiesIn(MemberRow(r.group_id, uid, "admin"), gm)
        + CopiesIn(MemberRow(r.group_id, uid, "member"), gm) > 0

\* group_messages: the SELECT policy USING (EXISTS (a group_members row of
\* auth.uid() in the row's group with role admin or member) AND deleted_at
\* IS NULL)
GroupMessagesSelect(gm, uid, r) ==
    /\ CopiesIn(MemberRow(r.group_id, uid, "admin"), gm)
          + CopiesIn(MemberRow(r.group_id, uid, "member"), gm) > 0
    /\ r.deleted_at = Null

\* the rows of a table that a request selects, each as often as stored
Select(table, rows) == [r \in rows |-> CopiesIn(r, table)]

\* the orders a request may return the rows of a bag in
Rows(b) ==
    {q \in [1..BagCardinality(b) -> BagToSet(b)] :
        \A r \in BagToSet(b) :
            Cardinality({i \in 1..BagCardinality(b) : q[i] = r}) = CopiesIn(r, b)}

(* -------------------------- matching service -------------------------- *)

\* no completed getPotentialMatches call is waiting for its caller
NoCandidates == [user |-> 0, limit |-> 0, result |-> {}, fault |-> "none",
                 error |-> FALSE]

\* Promise<Match | null>: the null result
NoMatch == MatchRow(0, 0)

\* createMatch without the sort
SortPairUnsorted(a, b) == <<a, b>>

\* const [u1, u2] = [user1Id, user2Id].sort()
SortPair(a, b) == IF a <= b THEN <<a, b>> ELSE <<b, a>>

\* the lookup without .eq('direction', 'right')
ReciprocalSwipeAnyDirection(sw, a, b) == NumSwipes(sw, b, a)

\* recordSwipe(a, b, 'right'): the number of rows selected by
\* .eq('swiper_id', swipedId).eq('swiped_id', swiperId).eq('direction', 'right')
ReciprocalSwipe(sw, a, b) == CopiesIn(SwipeRow(b, a, "right"), sw)

\* .single(): data is the row when exactly one row is selected, else null
Single(n) == n = 1

\* recordSwipe without the test of the duplicate: every error is thrown
DuplicateSwipeThrown(err) == FALSE

\* if (error.code === '23505') return null
DuplicateSwipe(err) == err = "23505"

\* A session's call in flight.  recip, alone, again, prev: see Entry.
\* overlap: some call completed after this one issued its first request.
NoPrev == [result |-> "none", ret |-> NoMatch, fault |-> "none"]

Idle == [pc |-> "idle", swiper |-> 0, swiped |-> 0,
         recip |-> FALSE, alone |-> FALSE, overlap |-> FALSE,
         again |-> FALSE, prev |-> NoPrev]

InFlight(a, b) ==
    {s \in Sessions : calls[s].pc # "idle" /\
        {calls[s].swiper, calls[s].swiped} = {a, b}}

\* Right-swipes are stored in both directions and no Match row is, and no
\* call for the pair is in flight that could still insert it.
Orphaned(a, b) ==
    /\ a # b
    /\ CopiesIn(SwipeRow(a, b, "right"), swipes) > 0
    /\ CopiesIn(SwipeRow(b, a, "right"), swipes) > 0
    /\ NumMatches(matches, a, b) = 0
    /\ InFlight(a, b) = {}

\* The record of a completed call recordSwipe(a, b, d).
\*   result   "ok": the promise resolved with ret (NoMatch for null);
\*            "error": it rejected
\*   wrote    the call's insert into swipes stored a row
\*   fault    the store request of the call that failed for a reason other
\*            than a constraint ("none", "insert", "lookup", "match")
\*   matchErr the SQLSTATE of the call's insert into matches
\* and what held when the call issued its first request:
\*   dup      a Swipe row of (a, b) was stored
\*   recip    a right-swipe row of (b, a) was stored
\*   alone    no other call between a and b was in flight
\*   orphan   Orphaned(a, b)
\*   again    the call completed last had the same arguments (a, b, d);
\*            prev is then its result, ret and fault
\* after: no call completed between the call's first request and its end.
Entry(a, b, d, dup, orphan, c, result, ret, wrote, fault, matchErr) ==
    [swiper |-> a, swiped |-> b, direction |-> d,
     dup |-> dup, recip |-> c.recip, alone |-> c.alone, orphan |-> orphan,
     again |-> c.again, prev |-> c.prev, after |-> ~c.overlap,
     result |-> result, ret |-> ret, wrote |-> wrote,
     fault |-> fault, matchErr |-> matchErr]

NoCall == [swiper |-> 0, swiped |-> 0, direction |-> "none",
           dup |-> FALSE, recip |-> FALSE, alone |-> FALSE, orphan |-> FALSE,
           again |-> FALSE, prev |-> NoPrev, after |-> FALSE,
           result |-> "none", ret |-> NoMatch, wrote |-> FALSE,
           fault |-> "none", matchErr |-> "none"]

SameCall(e, a, b, d) == e.swiper = a /\ e.swiped = b /\ e.direction = d

\* The call of session s completes with record e.
Complete(s, e) ==
    /\ calls' = [t \in Sessions |->
                    IF t = s THEN Idle
                    ELSE IF calls[t].pc = "idle" THEN calls[t]
                    ELSE [calls[t] EXCEPT !.overlap = TRUE]]
    /\ last' = e

\* recordSwipe, the insert into swipes and what follows it without a further
\* store request: the duplicate's return, the throw, the return of a left swipe.
RecordSwipe(s, a, b, d) ==
    /\ calls[s].pc = "idle"
    /\ ncalls < MaxCalls
    /\ ncalls' = ncalls + 1
    /\ LET c == [Idle EXCEPT !.swiper = a, !.swiped = b,
                     !.recip = CopiesIn(SwipeRow(b, a, "right"), swipes) > 0,
                     !.alone = InFlight(a, b) = {},
                     !.again = SameCall(last, a, b, d),
                     !.prev = IF SameCall(last, a, b, d)
                              THEN [result |-> last.result, ret |-> last.ret,
                                    fault |-> last.fault]
                              ELSE NoPrev]
           dup == NumSwipes(swipes, a, b) > 0
           orphan == Orphaned(a, b)
           err == SwipesInsertError(swipes, a, b, d)
       IN  \/ \* the request fails: throw new Error(error.message)
              /\ faults < MaxFaults
              /\ faults' = faults + 1
              /\ Complete(s, Entry(a, b, d, dup, orphan, c,
                                   "error", NoMatch, FALSE, "insert", "none"))
              /\ UNCHANGED swipes
           \/ \* a constraint rejects the row
              /\ err # "none"
              /\ Complete(s, Entry(a, b, d, dup, orphan, c,
                                   IF DuplicateSwipe(err) THEN "ok" ELSE "error",
                                   NoMatch, FALSE, "none", "none"))
              /\ UNCHANGED <<swipes, faults>>
           \/ \* the row is stored
              /\ err = "none"
              /\ swipes' = Insert(swipes, SwipeRow(a, b, d))
              /\ IF d = "right"
                 THEN /\ calls' = [calls EXCEPT ![s] = [c EXCEPT !.pc = "lookup"]]
                      /\ UNCHANGED last
                 ELSE Complete(s, Entry(a, b, d, dup, orphan, c,
                                        "ok", NoMatch, TRUE, "none", "none"))
              /\ UNCHANGED faults
    /\ UNCHANGED <<profiles, matches, candidates, messagingVars>>
    /\ UNCHANGED <<accountVars, screenVars>>

\* recordSwipe, the reciprocal lookup.  Its error is not read: a failed
\* request leaves reciprocalSwipe null, as no row does.
CheckReciprocal(s) ==
    /\ calls[s].pc = "lookup"
    /\ LET c == calls[s]
           a == c.swiper
           b == c.swiped
       IN  \/ /\ faults < MaxFaults
              /\ faults' = faults + 1
              /\ Complete(s, Entry(a, b, "right", FALSE, FALSE, c,
                                   "ok", NoMatch, TRUE, "lookup", "none"))
           \/ /\ Single(ReciprocalSwipe(swipes, a, b))
              /\ calls' = [calls EXCEPT ![s].pc = "createMatch"]
              /\ UNCHANGED <<last, faults>>
           \/ /\ ~Single(ReciprocalSwipe(swipes, a, b))
              /\ Complete(s, Entry(a, b, "right", FALSE, FALSE, c,
                                   "ok", NoMatch, TRUE, "none", "none"))
              /\ UNCHANGED faults
    /\ UNCHANGED <<profiles, swipes, matches, ncalls, candidates, messagingVars>>
    /\ UNCHANGED <<accountVars, screenVars>>

\* createMatch, and the return of its result by recordSwipe.
CreateMatch(s) ==
    /\ calls[s].pc = "createMatch"
    /\ LET c == calls[s]
           a == c.swiper
           b == c.swiped
           u == SortPair(a, b)
           err == MatchesInsertError(matches, u[1], u[2])
       IN  \/ /\ faults < MaxFaults
              /\ faults' = faults + 1
              /\ Complete(s, Entry(a, b, "right", FALSE, FALSE, c,
                                   "error", NoMatch, TRUE, "match", "none"))
              /\ UNCHANGED matches
           \/ \* if (error) throw new Error(error.message)
              /\ err # "none"
              /\ Complete(s, Entry(a, b, "right", FALSE, FALSE, c,
                                   "error", NoMatch, TRUE, "none", err))
              /\ UNCHANGED <<matches, faults>>
           \/ /\ err = "none"
              /\ matches' = Insert(matches, MatchRow(u[1], u[2]))
              /\ Complete(s, Entry(a, b, "right", FALSE, FALSE, c,
                                   "ok", MatchRow(u[1], u[2]), TRUE, "none", "none"))
              /\ UNCHANGED faults
    /\ UNCHANGED <<profiles, swipes, ncalls, candidates, messagingVars>>
    /\ UNCHANGED <<accountVars, screenVars>>

(* --------------------------- candidate filter ------------------------- *)

\* swipes?.map(s => s.swiped_id) || [] over .eq('swiper_id', userId)
SwipedIds(sw, u) == {r.swiped_id : r \in {x \in BagToSet(sw) : x.swiper_id = u}}

\* const excludeIds = [userId, ...swipedIds]
ExcludeIds(u, swipedIds) == {u} \cup swipedIds

\* the first query without .eq('city', currentUser.city)
SameCityQueryAnyCity(pr, city, excludeIds) ==
    {p \in DOMAIN pr : p \notin excludeIds}

\* .eq('city', currentUser.city).not('id', 'in', `(${excludeIds.join(',')})`)
\* A comparison with a null city selects no row.
SameCityQuery(pr, city, excludeIds) ==
    {p \in DOMAIN pr : city # NullCity /\ pr[p].city = city /\ p \notin excludeIds}

\* the fallback: any city, .not('id', 'in', ...) as excludeIds is never empty
FallbackQuery(pr, excludeIds) == {p \in DOMAIN pr : p \notin excludeIds}

\* .limit(limit) of a query with no order: any limit of the selected rows
LimitRows(rows, limit) ==
    {r \in SUBSET rows :
        Cardinality(r) = IF Cardinality(rows) < limit THEN Cardinality(rows) ELSE limit}

\* The record of a completed call getPotentialMatches(u, limit): the ids of
\* the profiles it resolved with (or error: it rejected) and the request of
\* it that failed.
Returned(u, limit, result, fault, error) ==
    candidates' = [user |-> u, limit |-> limit, result |-> result,
                   fault |-> fault, error |-> error]

\* getPotentialMatches.  The profiles table does not change in this model, and
\* the call reads swipes once: its four reads are taken as one step.  At most
\* one of its requests fails.
GetPotentialMatches(u, limit) ==
    /\ candidates = NoCandidates
    /\ \E fault \in {"none", "user", "swipes", "profiles", "fallback"} :
          /\ fault # "none" => faults < MaxFaults
          /\ faults' = IF fault = "none" THEN faults ELSE faults + 1
          /\ LET city == profiles[u].city
                 \* const { data: swipes } = ...: the error is not read
                 swipedIds == IF fault = "swipes" THEN {} ELSE SwipedIds(swipes, u)
                 excludeIds == ExcludeIds(u, swipedIds)
                 local == SameCityQuery(profiles, city, excludeIds)
             IN  IF fault = "user"
                 THEN \* throw new Error('Could not fetch current user.')
                      Returned(u, limit, {}, fault, TRUE)
                 ELSE IF fault = "profiles"
                 THEN \* if (matchesError) throw
                      Returned(u, limit, {}, fault, TRUE)
                 ELSE IF local # {}
                 THEN /\ fault # "fallback"
                      /\ \E r \in LimitRows(local, limit) :
                            Returned(u, limit, r, fault, FALSE)
                 ELSE IF fault = "fallback"
                 THEN \* fallbackError: falls through to profiles.map of []
                      Returned(u, limit, {}, fault, FALSE)
                 ELSE \E r \in LimitRows(FallbackQuery(profiles, excludeIds), limit) :
                            Returned(u, limit, r, fault, FALSE)
    /\ UNCHANGED <<profiles, swipes, matches, calls, last, ncalls, messagingVars>>
    /\ UNCHANGED <<accountVars, screenVars>>

\* ProfileScreen.fetchMatches takes the result: setMatches(data), or the
\* Alert of the catch.  The screen's own state is not modelled.
FetchMatchesDone ==
    /\ candidates # NoCandidates
    /\ candidates' = NoCandidates
    /\ UNCHANGED <<profiles, swipes, matches, calls, last, ncalls, faults, messagingVars>>
    /\ UNCHANGED <<accountVars, screenVars>>

(* --------------------------- messaging service ------------------------ *)

\* no completed call is waiting for its caller
NoReply == [op |-> "none"]

\* The record of a completed call sendMessage(s, r, content) or
\* sendGroupMessage(s, r, content) (r is then the group): result "ok" (it
\* resolved with the stored row) or "error" (it rejected), and code: the
\* SQLSTATE of the insert, "fault" for a request that failed otherwise,
\* "too long" for the service's own check.  The record of a call that
\* resolved has one more field, data: the stored row.
Sent(op, s, r, len, result, code) ==
    [op |-> op, sender |-> s, recipient |-> r, len |-> len,
     result |-> result, code |-> code]

\* sendMessage
SendMessage(s, r, len) ==
    /\ BagCardinality(messages) < MaxMessages
    /\ IF len > MaxLength
       THEN \* if (content.length > 2000) throw new Error('Message too long')
            /\ reply' = Sent("sendMessage", s, r, len, "error", "too long")
            /\ UNCHANGED <<messages, faults>>
       ELSE LET err == MessagesInsertError(matches, s, r, len)
            IN  \/ /\ faults < MaxFaults
                   /\ faults' = faults + 1
                   /\ reply' = Sent("sendMessage", s, r, len, "error", "fault")
                   /\ UNCHANGED messages
                \/ \* if (error) throw new Error(error.message)
                   /\ err # "none"
                   /\ reply' = Sent("sendMessage", s, r, len, "error", err)
                   /\ UNCHANGED <<messages, faults>>
                \/ /\ err = "none"
                   /\ \E t \in Now(messages) :
                         /\ messages' = Insert(messages, MessageRow(s, r, t, Null))
                         /\ reply' = Sent("sendMessage", s, r, len, "ok", "none")
                                        @@ [data |-> MessageRow(s, r, t, Null)]
                   /\ UNCHANGED faults
    /\ UNCHANGED <<profiles, swipes, matches, calls, last, ncalls, candidates,
                   group_members, group_messages>>
    /\ UNCHANGED <<accountVars, screenVars>>

\* .eq('sender_id', senderId).eq('recipient_id', recipientId).is('read_at', null)
UnreadFrom(ms, x, u) ==
    {r \in BagToSet(ms) :
        r.sender_id = x /\ r.recipient_id = u /\ r.read_at = Null}

\* The record of a completed call markMessagesAsRead(x, u): it resolves
\* whatever the store answered; fault, the request that failed.
Marked(x, u, fault) ==
    [op |-> "markMessagesAsRead", sender |-> x, recipient |-> u, fault |-> fault]

\* markMessagesAsRead(senderId, recipientId), called by the recipient.  A
\* failed update is logged and the call resolves.
MarkMessagesAsRead(x, u) ==
    /\ \/ /\ faults < MaxFaults
          /\ faults' = faults + 1
          /\ reply' = Marked(x, u, "update")
          /\ UNCHANGED messages
       \/ /\ \E t \in Now(messages) :
                messages' = SetReadAt(messages, UnreadFrom(messages, x, u), t)
          /\ reply' = Marked(x, u, "none")
          /\ UNCHANGED faults
    /\ UNCHANGED <<profiles, swipes, matches, calls, last, ncalls, candidates,
                   group_members, group_messages>>
    /\ UNCHANGED <<accountVars, screenVars>>

\* markAsRead(messageId) called by user uid, messageId being the id of a copy
\* of row r: .eq('id', messageId) under the UPDATE policy USING (auth.uid() =
\* recipient_id).  The result of the request is not read and the call
\* resolves with nothing: it leaves its caller no result to take.
MarkAsRead(uid, r) ==
    /\ CopiesIn(r, messages) > 0
    /\ \/ /\ faults < MaxFaults
          /\ faults' = faults + 1
          /\ UNCHANGED messages
       \/ /\ \E t \in Now(messages) :
                messages' = IF r.recipient_id = uid
                            THEN SetReadAtOne(messages, r, t)
                            ELSE messages
          /\ UNCHANGED faults
    /\ UNCHANGED <<profiles, swipes, matches, calls, last, ncalls, candidates,
                   group_members, group_messages, reply>>
    /\ UNCHANGED <<accountVars, screenVars>>

\* .eq('recipient_id', userId).is('read_at', null), { count: 'exact' }
Unread(ms, u) ==
    SumCopies(ms, {r \in BagToSet(ms) : r.recipient_id = u /\ r.read_at = Null})

\* getTotalUnreadCount(u): if (error) return 0; return count || 0
GetTotalUnreadCount(u) ==
    /\ \/ /\ faults < MaxFaults
          /\ faults' = faults + 1
          /\ reply' = [op |-> "getTotalUnreadCount", user |-> u, count |-> 0,
                       fault |-> "count"]
       \/ /\ reply' = [op |-> "getTotalUnreadCount", user |-> u,
                       count |-> Unread(messages, u), fault |-> "none"]
          /\ UNCHANGED faults
    /\ UNCHANGED <<profiles, swipes, matches, calls, last, ncalls, candidates,
                   messages, group_members, group_messages>>
    /\ UNCHANGED <<accountVars, screenVars>>

\* last_message: undefined
NoMessage == MessageRow(Null, Null, Null, Null)

Conversation(o, lm, n) ==
    [other_user |-> o, last_message |-> lm, unread_count |-> n]

\* .from('matches').or(`user1_id.eq.${userId},user2_id.eq.${userId}`)
MatchesOf(ms, u) == {m \in BagToSet(ms) : m.user1_id = u \/ m.user2_id = u}

\* user1:profiles!user1_id(...): the embedded profile is read under the SELECT
\* policies of profiles (profile_visibility = 'public' OR id = auth.uid());
\* a row they hide is embedded as null.
Embedded(pr, uid, p) ==
    IF pr[p].profile_visibility = "public" \/ p = uid THEN p ELSE Null

\* isUser1 = match.user1.id === userId; otherUser = isUser1 ? match.user2 :
\* match.user1; then otherUser.id.  Null: the access of .id on null threw.
OtherUser(pr, u, m) ==
    LET user1 == Embedded(pr, u, m.user1_id)
        user2 == Embedded(pr, u, m.user2_id)
    IN  IF user1 = Null THEN Null
        ELSE IF user1 = u THEN user2 ELSE user1

\* the messages between u and o, in either direction
Between(ms, u, o) ==
    {r \in BagToSet(ms) :
        \/ r.sender_id = u /\ r.recipient_id = o
        \/ r.sender_id = o /\ r.recipient_id = u}

\* .order('created_at', { ascending: false }).limit(1).single(): a row of the
\* latest created_at, any of them when several have it; none: data is null
LastMessages(ms, u, o) ==
    IF Between(ms, u, o) = {} THEN {NoMessage}
    ELSE {r \in Between(ms, u, o) :
            \A x \in Between(ms, u, o) : x.created_at <= r.created_at}

\* conversations.sort((a, b) => timeB.localeCompare(timeA)) with time the
\* last message's created_at or '': q is in the order the sort leaves
SortedByLastMessage(q) ==
    \A i \in 1..Len(q), j \in 1..Len(q) :
        i < j => q[i].last_message.created_at >= q[j].last_message.created_at

\* the orders of a set of entries
Orders(entries) ==
    {q \in [1..Cardinality(entries) -> entries] :
        \A e \in entries : \E i \in 1..Cardinality(entries) : q[i] = e}

\* The record of a completed call getConversations(u): result "ok" with the
\* list, or "error"; fault, the request that failed; again: the caller's
\* previous call, on the same state of the store, is prev.
Listed(u, list, result, fault, prev) ==
    [op |-> "getConversations", user |-> u, list |-> list, result |-> result,
     fault |-> fault, again |-> prev.op = "getConversations",
     prev |-> IF prev.op = "getConversations"
              THEN [list |-> prev.list, result |-> prev.result, fault |-> prev.fault]
              ELSE [list |-> <<>>, result |-> "none", fault |-> "none"]]

\* getConversations.  The matches query has no order, and the sort is stable:
\* entries the comparison takes as equal stay in the order the store returned
\* their matches in, which is any order.  At most one request of the call
\* fails; f is the other user of the match whose request failed.
GetConversations(u) ==
    \E fault \in {"none", "matches", "lastMsg", "count"} :
       /\ fault # "none" => faults < MaxFaults
       /\ faults' = IF fault = "none" THEN faults ELSE faults + 1
       /\ LET others == {OtherUser(profiles, u, m) : m \in MatchesOf(matches, u)}
          IN  IF fault = "matches"
              THEN \* if (matchesError) throw
                   reply' = Listed(u, <<>>, "error", fault, reply)
              ELSE IF Null \in others
              THEN \* TypeError
                   /\ fault = "none"
                   /\ reply' = Listed(u, <<>>, "error", fault, reply)
              ELSE \E f \in IF fault = "none" THEN {Null} ELSE others :
                   \E lm \in [others -> BagToSet(messages) \cup {NoMessage}] :
                      /\ \A o \in others :
                            lm[o] \in IF fault = "lastMsg" /\ o = f
                                      THEN {NoMessage}
                                      ELSE LastMessages(messages, u, o)
                      /\ \E q \in Orders({Conversation(o, lm[o],
                                      IF fault = "count" /\ o = f THEN 0
                                      ELSE SumCopies(messages, UnreadFrom(messages, o, u))) :
                                                o \in others}) :
                            /\ SortedByLastMessage(q)
                            /\ reply' = Listed(u, q, "ok", fault, reply)
    /\ UNCHANGED <<profiles, swipes, matches, calls, last, ncalls, candidates,
                   messages, group_members, group_messages>>
    /\ UNCHANGED <<accountVars, screenVars>>

\* The caller takes the result: setConversations(data), setUnreadCount(count),
\* the catch of a rejection.  The screens' own state is not modelled.
TakeReply ==
    /\ reply # NoReply
    /\ reply' = NoReply
    /\ UNCHANGED <<profiles, swipes, matches, calls, last, ncalls, faults,
                   candidates, messages, group_members, group_messages>>
    /\ UNCHANGED <<accountVars, screenVars>>

(* ----------------------------- group service -------------------------- *)

\* The record of a completed call joinGroup(u, g) or leaveGroup(u, g).
Joined(op, u, g, result, code) ==
    [op |-> op, user |-> u, group |-> g, result |-> result, code |-> code]

\* joinGroup: if (error.code === '23505') return; throw otherwise
JoinGroup(u, g) ==
    /\ LET err == GroupMembersInsertError(group_members, g, u, "member")
       IN  \/ /\ faults < MaxFaults
              /\ faults' = faults + 1
              /\ reply' = Joined("joinGroup", u, g, "error", "fault")
              /\ UNCHANGED group_members
           \/ /\ UNCHANGED faults
              /\ IF err = "none"
                 THEN /\ group_members' = Insert(group_members, MemberRow(g, u, "member"))
                      /\ reply' = Joined("joinGroup", u, g, "ok", "none")
                 ELSE /\ reply' = Joined("joinGroup", u, g,
                                         IF err = "23505" THEN "ok" ELSE "error", err)
                      /\ UNCHANGED group_members
    /\ UNCHANGED <<profiles, swipes, matches, calls, last, ncalls, candidates,
                   messages, group_messages>>
    /\ UNCHANGED <<accountVars, screenVars>>

\* leaveGroup: .delete().eq('user_id', userId).eq('group_id', groupId)
LeaveGroup(u, g) ==
    /\ \/ /\ faults < MaxFaults
          /\ faults' = faults + 1
          /\ reply' = Joined("leaveGroup", u, g, "error", "fault")
          /\ UNCHANGED group_members
       \/ /\ group_members' =
                LET rows == {r \in BagToSet(group_members) :
                                ~(r.group_id = g /\ r.user_id = u)}
                IN  [r \in rows |-> CopiesIn(r, group_members)]
          /\ reply' = Joined("leaveGroup", u, g, "ok", "none")
          /\ UNCHANGED faults
    /\ UNCHANGED <<profiles, swipes, matches, calls, last, ncalls, candidates,
                   messages, group_messages>>
    /\ UNCHANGED <<accountVars, screenVars>>

\* sendGroupMessage: the service does not look at the content
SendGroupMessage(u, g, len) ==
    /\ BagCardinality(group_messages) < MaxMessages
    /\ LET err == GroupMessagesInsertError(group_members, g, u, len)
       IN  \/ /\ faults < MaxFaults
              /\ faults' = faults + 1
              /\ reply' = Sent("sendGroupMessage", u, g, len, "error", "fault")
              /\ UNCHANGED group_messages
           \/ /\ UNCHANGED faults
              /\ IF err = "none"
                 THEN \E t \in GroupNow(group_messages) :
                         /\ group_messages' =
                                Insert(group_messages, GroupMessageRow(g, u, t, Null))
                         /\ reply' = Sent("sendGroupMessage", u, g, len, "ok", "none")
                                        @@ [data |-> GroupMessageRow(g, u, t, Null)]
                 ELSE \* if (error) throw new Error(error.message)
                      /\ reply' = Sent("sendGroupMessage", u, g, len, "error", err)
                      /\ UNCHANGED group_messages
    /\ UNCHANGED <<profiles, swipes, matches, calls, last, ncalls, candidates,
                   messages, group_members>>
    /\ UNCHANGED <<accountVars, screenVars>>

\* A caller-level retry: the caller repeats, with the same arguments, the
\* mutating call that has just resolved, before any other step of the store.
Retry ==
    /\ reply.op \in {"sendMessage", "sendGroupMessage", "joinGroup", "leaveGroup"}
    /\ reply.result = "ok"
    /\ CASE reply.op = "sendMessage" ->
               SendMessage(reply.sender, reply.recipient, reply.len)
         [] reply.op = "sendGroupMessage" ->
               SendGroupMessage(reply.sender, reply.recipient, reply.len)
         [] reply.op = "joinGroup" -> JoinGroup(reply.user, reply.group)
         [] reply.op = "leaveGroup" -> LeaveGroup(reply.user, reply.group)

\* The store's update that soft-deletes a copy of row r, requested by user
\* uid: the UPDATE policy "Admins can soft-delete messages".  No service of
\* the client issues it.
SoftDelete(uid, r) ==
    /\ CopiesIn(r, group_messages) > 0
    /\ r.deleted_at = Null
    /\ CopiesIn(MemberRow(r.group_id, uid, "admin"), group_members) > 0
    /\ \E t \in GroupNow(group_messages) :
          group_messages' = (group_messages (-) SetToBag({r}))
                                (+) SetToBag({[r EXCEPT !.deleted_at = t]})
    /\ UNCHANGED <<profiles, swipes, matches, calls, last, ncalls, faults,
                   candidates, messages, group_members, reply>>
    /\ UNCHANGED <<accountVars, screenVars>>

\* getGroups(userId) without a city, and with the empty city: if (city) is false
NoCity == ""

\* select('*') of groups, with .or(`city.eq.${city},city.is.null`) if (city)
GroupsQuery(gr, city) ==
    {g \in DOMAIN gr : city = NoCity \/ gr[g].city = city \/ gr[g].city = NullCity}

\* new Set(memberships?.map(m => m.group_id)) over .eq('user_id', userId)
MemberGroupIds(gm, u) == {r.group_id : r \in {x \in BagToSet(gm) : x.user_id = u}}

\* The record of a completed call getGroups(u, city): result "ok" with the
\* bag of the entries [id, is_member] of the list, or "error".
Fetched(u, city, list, result, fault) ==
    [op |-> "getGroups", user |-> u, city |-> city, list |-> list,
     result |-> result, fault |-> fault]

\* getGroups.  The error of the memberships query is not read: a failed
\* request leaves memberships null and the Set empty.
GetGroups(u, city) ==
    /\ \E fault \in {"none", "groups", "memberships"} :
          /\ fault # "none" => faults < MaxFaults
          /\ faults' = IF fault = "none" THEN faults ELSE faults + 1
          /\ LET memberGroupIds == IF fault = "memberships" THEN {}
                                   ELSE MemberGroupIds(group_members, u)
                 list == SetToBag({[id |-> g, is_member |-> g \in memberGroupIds] :
                                      g \in GroupsQuery(groups, city)})
             IN  IF fault = "groups"
                 THEN \* if (error) throw new Error(error.message)
                      reply' = Fetched(u, city, EmptyBag, "error", fault)
                 ELSE reply' = Fetched(u, city, list, "ok", fault)
    /\ UNCHANGED <<profiles, swipes, matches, calls, last, ncalls, candidates,
                   messages, group_members, group_messages>>
    /\ UNCHANGED <<accountVars, screenVars>>

\* .order('created_at', { ascending: true })
Ascending(q) ==
    \A i \in 1..Len(q), j \in 1..Len(q) : i < j => q[i].created_at <= q[j].created_at

\* getGroupMessages(g) called by the signed-in user uid: the rows of the
\* group that the SELECT policy lets her read, rows of equal created_at in
\* any order.
GetGroupMessages(uid, g) ==
    /\ \/ /\ faults < MaxFaults
          /\ faults' = faults + 1
          /\ reply' = [op |-> "getGroupMessages", user |-> uid, group |-> g,
                       list |-> <<>>, result |-> "error"]
       \/ /\ UNCHANGED faults
          /\ \E q \in Rows(Select(group_messages,
                    {r \in BagToSet(group_messages) :
                        r.group_id = g /\ GroupMessagesSelect(group_members, uid, r)})) :
                /\ Ascending(q)
                /\ reply' = [op |-> "getGroupMessages", user |-> uid, group |-> g,
                             list |-> q, result |-> "ok"]
    /\ UNCHANGED <<profiles, swipes, matches, calls, last, ncalls, candidates,
                   messages, group_members, group_messages>>
    /\ UNCHANGED <<accountVars, screenVars>>

(* ---------------------------- profile service ------------------------- *)

KidRow(u, age) == [user_id |-> u, age |-> age]
InterestRow(u, i) == [user_id |-> u, interest |-> i]

\* kids: CHECK (age >= 0 AND age <= 18).  The SQLSTATE the insert of a list
\* of rows, one statement, ends with; "none": all its rows are stored.
KidsInsertError(ages) ==
    IF \E i \in 1..Len(ages) : ages[i] < 0 \/ ages[i] > 18 THEN "23514" ELSE "none"

\* user_interests: UNIQUE(user_id, interest)
InterestsInsertError(ui, u, tags) ==
    IF \/ \E i \in 1..Len(tags), j \in 1..Len(tags) : i # j /\ tags[i] = tags[j]
       \/ \E i \in 1..Len(tags) : CopiesIn(InterestRow(u, tags[i]), ui) > 0
    THEN "23505" ELSE "none"

\* updateProfile without the delete of the existing rows
DeleteOfNone(table, u) == table

\* .delete().eq('user_id', userId)
DeleteOf(table, u) ==
    Select(table, {r \in BagToSet(table) : r.user_id # u})

\* .insert(rows) of a list of rows
RECURSIVE InsertRows(_, _)
InsertRows(table, rows) ==
    IF rows = <<>> THEN table
    ELSE InsertRows(Insert(table, Head(rows)), Tail(rows))

\* data.kids, data.interests: a list, or undefined
Undefined == [given |-> FALSE, list |-> <<>>]
Given(list) == [given |-> TRUE, list |-> list]

\* ProfileUpdateData, of which the city is stored in the model's profiles
ProfileData(city, ages, tags) ==
    [city |-> city, profileVisibility |-> "public", kids |-> ages, interests |-> tags]

\* A user's updateProfile call: pc, the request it issues next ("done": it
\* resolved, "error": it rejected, and the caller has not taken the result).
NoUpdate == [pc |-> "idle", data |-> ProfileData(NullCity, Undefined, Undefined)]

\* the request that follows the kids part, and the interests part
AfterKids(data) == IF data.interests.given THEN "deleteInterests" ELSE "done"
AfterProfile(data) == IF data.kids.given THEN "deleteKids" ELSE AfterKids(data)

\* The request of updateProfile of user u fails, or the store rejects it:
\* throw new Error(error.message)
UpdateThrows(u) == updates' = [updates EXCEPT ![u].pc = "error"]

\* updateProfile(u, data), 1: the upsert of the profile
UpdateProfile(u, data) ==
    /\ updates[u].pc = "idle"
    /\ u \in auth_users
    /\ \/ /\ faults < MaxFaults
          /\ faults' = faults + 1
          /\ updates' = [updates EXCEPT ![u] = [pc |-> "error", data |-> data]]
          /\ UNCHANGED profiles
       \/ /\ profiles' = [profiles EXCEPT ![u] =
                             [city |-> data.city,
                              profile_visibility |-> data.profileVisibility]]
          /\ updates' = [updates EXCEPT ![u] = [pc |-> AfterProfile(data), data |-> data]]
          /\ UNCHANGED faults
    /\ UNCHANGED <<swipes, matches, calls, last, ncalls, candidates, messagingVars,
                   kids, user_interests, auth_users, screenVars>>

\* 2: if (data.kids), the delete of the user's kids
DeleteKids(u) ==
    /\ updates[u].pc = "deleteKids"
    /\ \/ /\ faults < MaxFaults
          /\ faults' = faults + 1
          /\ UpdateThrows(u)
          /\ UNCHANGED kids
       \/ /\ kids' = DeleteOf(kids, u)
          /\ updates' = [updates EXCEPT ![u].pc =
                            IF Len(updates[u].data.kids.list) > 0 THEN "insertKids"
                            ELSE AfterKids(updates[u].data)]
          /\ UNCHANGED faults
    /\ UNCHANGED <<profiles, swipes, matches, calls, last, ncalls, candidates,
                   messagingVars, user_interests, auth_users, screenVars>>

\* if (data.kids.length > 0), the insert of the submitted kids
InsertKids(u) ==
    /\ updates[u].pc = "insertKids"
    /\ LET ages == updates[u].data.kids.list
       IN  \/ /\ faults < MaxFaults
              /\ faults' = faults + 1
              /\ UpdateThrows(u)
              /\ UNCHANGED kids
           \/ /\ KidsInsertError(ages) # "none"
              /\ UpdateThrows(u)
              /\ UNCHANGED <<kids, faults>>
           \/ /\ KidsInsertError(ages) = "none"
              /\ kids' = InsertRows(kids, [i \in 1..Len(ages) |-> KidRow(u, ages[i])])
              /\ updates' = [updates EXCEPT ![u].pc = AfterKids(updates[u].data)]
              /\ UNCHANGED faults
    /\ UNCHANGED <<profiles, swipes, matches, calls, last, ncalls, candidates,
                   messagingVars, user_interests, auth_users, screenVars>>

\* 3: if (data.interests), the delete of the user's interests
DeleteInterests(u) ==
    /\ updates[u].pc = "deleteInterests"
    /\ \/ /\ faults < MaxFaults
          /\ faults' = faults + 1
          /\ UpdateThrows(u)
          /\ UNCHANGED user_interests
       \/ /\ user_interests' = DeleteOf(user_interests, u)
          /\ updates' = [updates EXCEPT ![u].pc =
                            IF Len(updates[u].data.interests.list) > 0
                            THEN "insertInterests" ELSE "done"]
          /\ UNCHANGED faults
    /\ UNCHANGED <<profiles, swipes, matches, calls, last, ncalls, candidates,
                   messagingVars, kids, auth_users, screenVars>>

\* if (data.interests.length > 0), the insert of the submitted interests
InsertInterests(u) ==
    /\ updates[u].pc = "insertInterests"
    /\ LET tags == updates[u].data.interests.list
           err == InterestsInsertError(user_interests, u, tags)
       IN  \/ /\ faults < MaxFaults
              /\ faults' = faults + 1
              /\ UpdateThrows(u)
              /\ UNCHANGED user_interests
           \/ /\ err # "none"
              /\ UpdateThrows(u)
              /\ UNCHANGED <<user_interests, faults>>
           \/ /\ err = "none"
              /\ user_interests' =
                    InsertRows(user_interests,
                               [i \in 1..Len(tags) |-> InterestRow(u, tags[i])])
              /\ updates' = [updates EXCEPT ![u].pc = "done"]
              /\ UNCHANGED faults
    /\ UNCHANGED <<profiles, swipes, matches, calls, last, ncalls, candidates,
                   messagingVars, kids, auth_users, screenVars>>

\* The caller takes the profile updateProfile resolved with, or its error.
UpdateProfileDone(u) ==
    /\ updates[u].pc \in {"done", "error"}
    /\ updates' = [updates EXCEPT ![u] = NoUpdate]
    /\ UNCHANGED <<profiles, swipes, matches, calls, last, ncalls, faults,
                   candidates, messagingVars, kids, user_interests, auth_users,
                   screenVars>>

(* ------------------------------ auth service -------------------------- *)

\* data.password.length < 8
MinPassword == 8

\* signUp without the check of the password
WeakPasswordAccepted(len) == FALSE

WeakPassword(len) == len < MinPassword

\* The record of a completed call signUp of user u: the AuthResult's user
\* (Null for null), whether it carries a session, its error ("none" for
\* null), and called: supabase.auth.signUp was called.
SignedUp(u, accepted, len, called, user, session, error) ==
    [op |-> "signUp", email |-> u, accepted |-> accepted, len |-> len,
     called |-> called, user |-> user, session |-> session, error |-> error]

\* signUp.  The identity provider answers a new email with the user and,
\* unless the project asks for a confirmed email first, a session; an email
\* that is signed up already, or a request that fails, with an error.
SignUp(u, accepted, len) ==
    /\ IF ~accepted
       THEN /\ reply' = SignedUp(u, accepted, len, FALSE, Null, FALSE, "guidelines")
            /\ UNCHANGED <<auth_users, faults>>
       ELSE IF WeakPassword(len)
       THEN /\ reply' = SignedUp(u, accepted, len, FALSE, Null, FALSE, "password")
            /\ UNCHANGED <<auth_users, faults>>
       ELSE \/ /\ faults < MaxFaults
               /\ faults' = faults + 1
               /\ reply' = SignedUp(u, accepted, len, TRUE, Null, FALSE, "fault")
               /\ UNCHANGED auth_users
            \/ /\ u \in auth_users
               /\ reply' = SignedUp(u, accepted, len, TRUE, Null, FALSE, "registered")
               /\ UNCHANGED <<auth_users, faults>>
            \/ /\ u \notin auth_users
               /\ auth_users' = auth_users \cup {u}
               /\ \E session \in BOOLEAN :
                     reply' = SignedUp(u, accepted, len, TRUE, u, session, "none")
               /\ UNCHANGED faults
    /\ UNCHANGED <<profiles, swipes, matches, calls, last, ncalls, candidates,
                   messages, group_members, group_messages,
                   kids, user_interests, updates, screenVars>>

(* ------------------------------- screens ------------------------------ *)

\* The screens are those of one client, of the signed-in user Me; ChatScreen
\* is opened with otherUser Peer, GroupChatScreen with group Room.
Me == 1
Peer == 2
Room == 1

\* supabase.channel(name): 'unread-messages', `chat:${currentUserId}`,
\* `group:${group.id}`
Channels == {"unread-messages", "chat", "group"}

\* no channel: the client has joined none, or has removed them all
NoChannels == [c \in Channels |-> "none"]

\* A change of the store as the realtime relay passes it on: payload.new is
\* the row.  The relay reads the changes of the store some time after they
\* are made and passes each on, once, to the channels joined at that time.
Change(table, event, new) == [table |-> table, event |-> event, new |-> new]

\* the changes made and not yet relayed: the inserts of messages, the
\* updates that set read_at, the inserts of group_messages
Pending(rel) ==
    {ch \in {Change("messages", "INSERT", [r EXCEPT !.read_at = Null]) :
                r \in BagToSet(messages)} :
        SumCopies(messages, {r \in BagToSet(messages) :
                                [r EXCEPT !.read_at = Null] = ch.new})
            > CopiesIn(ch, rel)}
    \cup {ch \in {Change("messages", "UPDATE", r) :
                    r \in {x \in BagToSet(messages) : x.read_at # Null}} :
              CopiesIn(ch.new, messages) > CopiesIn(ch, rel)}
    \cup {ch \in {Change("group_messages", "INSERT", [r EXCEPT !.deleted_at = Null]) :
                    r \in BagToSet(group_messages)} :
              SumCopies(group_messages, {r \in BagToSet(group_messages) :
                                            [r EXCEPT !.deleted_at = Null] = ch.new})
                  > CopiesIn(ch, rel)}

\* MainTabNavigator: mounted; subscribed: its channel has been joined;
\* fetches: the fetchUnreadCount calls started and not completed; count:
\* unreadCount.
NoBadge == [mounted |-> FALSE, subscribed |-> FALSE, fetches |-> 0, count |-> 0]

\* ChatScreen and GroupChatScreen: pc "closed" or "open"; load: the state of
\* loadMessages ("none", "sent", "read", "done", "error") and loaded, the rows
\* its request read; list: messages, the displayed list; mark: the
\* markMessagesAsRead call of ChatScreen is to be made; userId: the userId
\* that the callback of the subscription compares sender_id with.
NoChat == [pc |-> "closed", load |-> "none", loaded |-> <<>>, list |-> <<>>,
           mark |-> FALSE, userId |-> Null]

\* The callback of subscribeToMessages is made in the render in which the
\* effect runs, the first: the userId it reads is that render's, '', whatever
\* setUserId(user.id) sets for later renders.
SubscriptionUserId(user) == Null

\* getMessages(u, o): the rows between the two in ascending order of
\* created_at, rows of equal created_at in any order
GetMessages(ms, u, o) == {q \in Rows(Select(ms, Between(ms, u, o))) : Ascending(q)}

\* MainTabNavigator mounts: fetchUnreadCount(), setupSubscription()
MountNavigator ==
    /\ ~badge.mounted
    /\ badge' = [badge EXCEPT !.mounted = TRUE, !.fetches = 1]
    /\ channels' = [channels EXCEPT !["unread-messages"] = "joining"]
    /\ UNCHANGED <<profiles, swipes, matches, calls, last, ncalls, faults,
                   candidates, messagingVars, accountVars, relayed, chat, gchat>>

\* The relay has registered the subscription of channel c.
Subscribed(c) ==
    /\ channels[c] = "joining"
    /\ channels' = [channels EXCEPT ![c] = "joined"]
    /\ badge' = IF c = "unread-messages"
                THEN [badge EXCEPT !.subscribed = TRUE] ELSE badge
    /\ UNCHANGED <<profiles, swipes, matches, calls, last, ncalls, faults,
                   candidates, messagingVars, accountVars, relayed, chat, gchat>>

\* setInterval(fetchUnreadCount, 30000)
Tick ==
    /\ badge.mounted
    /\ badge.fetches < MaxFetches
    /\ badge' = [badge EXCEPT !.fetches = @ + 1]
    /\ UNCHANGED <<profiles, swipes, matches, calls, last, ncalls, faults,
                   candidates, messagingVars, accountVars, channels, relayed,
                   chat, gchat>>

\* fetchUnreadCount: setUnreadCount(count) with the count that
\* getTotalUnreadCount resolved with
SetUnreadCount ==
    /\ reply.op = "getTotalUnreadCount"
    /\ reply' = NoReply
    /\ badge' = [badge EXCEPT !.count = reply.count, !.fetches = @ - 1]
    /\ UNCHANGED <<profiles, swipes, matches, calls, last, ncalls, faults,
                   candidates, messages, group_members, group_messages,
                   accountVars, channels, relayed, chat, gchat>>

\* The relay passes on a change; the callbacks of the joined channels that
\* the change is for run: fetchUnreadCount() of 'unread-messages' (event '*',
\* recipient_id = Me), setMessages(prev => [...prev, newMsg]) of the chat
\* channel (INSERT, recipient_id = Me) if newMsg.sender_id === otherUser.id,
\* and of the group channel (INSERT, group_id = Room) if newMsg.sender_id !==
\* userId.  The select of the sender's profile in the latter changes nothing
\* of the store and is not a step of its own.
Relay(ch) ==
    /\ ch \in Pending(relayed)
    /\ relayed' = relayed (+) SetToBag({ch})
    /\ badge' = IF /\ channels["unread-messages"] = "joined"
                   /\ ch.table = "messages" /\ ch.new.recipient_id = Me
                THEN [badge EXCEPT !.fetches = @ + 1] ELSE badge
    /\ chat' = IF /\ channels["chat"] = "joined"
                  /\ ch.table = "messages" /\ ch.event = "INSERT"
                  /\ ch.new.recipient_id = Me
                  /\ ch.new.sender_id = Peer
               THEN [chat EXCEPT !.list = Append(@, ch.new)] ELSE chat
    /\ gchat' = IF /\ channels["group"] = "joined"
                   /\ ch.table = "group_messages" /\ ch.event = "INSERT"
                   /\ ch.new.group_id = Room
                   /\ GroupMessagesSelect(group_members, Me, ch.new)
                   /\ ch.new.sender_id # gchat.userId
                THEN [gchat EXCEPT !.list = Append(@, ch.new)] ELSE gchat
    /\ UNCHANGED <<profiles, swipes, matches, calls, last, ncalls, faults,
                   candidates, messagingVars, accountVars, channels>>

\* ChatScreen mounts: loadMessages, subscribeToMessages and
\* markMessagesAsRead are started.
OpenChat ==
    /\ chat.pc = "closed" /\ gchat.pc = "closed"
    /\ chat' = [NoChat EXCEPT !.pc = "open", !.load = "sent", !.mark = TRUE]
    /\ channels' = [channels EXCEPT !["chat"] = "joining"]
    /\ UNCHANGED <<profiles, swipes, matches, calls, last, ncalls, faults,
                   candidates, messagingVars, accountVars, relayed, badge, gchat>>

\* The store answers the getMessages request of loadMessages, or the
\* request fails.
LoadMessages ==
    /\ chat.load = "sent"
    /\ \/ /\ faults < MaxFaults
          /\ faults' = faults + 1
          /\ chat' = [chat EXCEPT !.load = "error"]
       \/ /\ \E q \in GetMessages(messages, Me, Peer) :
                chat' = [chat EXCEPT !.load = "read", !.loaded = q]
          /\ UNCHANGED faults
    /\ UNCHANGED <<profiles, swipes, matches, calls, last, ncalls,
                   candidates, messagingVars, accountVars, channels, relayed,
                   badge, gchat>>

\* loadMessages: setMessages(msgs)
LoadDone ==
    /\ chat.load = "read"
    /\ chat' = [chat EXCEPT !.load = "done", !.list = chat.loaded, !.loaded = <<>>]
    /\ UNCHANGED <<profiles, swipes, matches, calls, last, ncalls, faults,
                   candidates, messagingVars, accountVars, channels, relayed,
                   badge, gchat>>

\* The markMessagesAsRead call of the effect has resolved.
MarkDone ==
    /\ reply.op = "markMessagesAsRead"
    /\ reply' = NoReply
    /\ chat' = [chat EXCEPT !.mark = FALSE]
    /\ UNCHANGED <<profiles, swipes, matches, calls, last, ncalls, faults,
                   candidates, messages, group_members, group_messages,
                   accountVars, channels, relayed, badge, gchat>>

\* handleSend of ChatScreen and of GroupChatScreen, after the send resolved:
\* setMessages(prev => [...prev, newMsg]); after it rejected: console.error
SendDone ==
    /\ reply.op \in {"sendMessage", "sendGroupMessage"}
    /\ reply.sender = Me
    /\ reply' = NoReply
    /\ chat' = IF reply.op = "sendMessage" /\ reply.result = "ok" /\ chat.pc = "open"
               THEN [chat EXCEPT !.list = Append(@, reply.data)] ELSE chat
    /\ gchat' = IF reply.op = "sendGroupMessage" /\ reply.result = "ok"
                   /\ gchat.pc = "open"
                THEN [gchat EXCEPT !.list = Append(@, reply.data)] ELSE gchat
    /\ UNCHANGED <<profiles, swipes, matches, calls, last, ncalls, faults,
                   candidates, messages, group_members, group_messages,
                   accountVars, channels, relayed, badge>>

\* the result that a call of the screen resolved with and that the screen
\* has not taken yet
OfScreen(rep) ==
    \/ rep.op \in {"sendMessage", "sendGroupMessage"} /\ rep.sender = Me
    \/ rep.op = "getGroupMessages"

\* ChatScreen or GroupChatScreen unmounts: supabase.removeAllChannels()
\* removes every channel of the client.  The state of the screen is gone, and
\* with it what a call in flight resolves with; a markMessagesAsRead call
\* that is still to be made is made all the same.
CloseChat ==
    /\ chat.pc = "open" \/ gchat.pc = "open"
    /\ chat' = [NoChat EXCEPT !.mark = chat.mark]
    /\ gchat' = NoChat
    /\ channels' = NoChannels
    /\ reply' = IF OfScreen(reply) THEN NoReply ELSE reply
    /\ UNCHANGED <<profiles, swipes, matches, calls, last, ncalls, faults,
                   candidates, messages, group_members, group_messages,
                   accountVars, relayed, badge>>

\* GroupChatScreen mounts: setUserId(user.id), loadMessages and
\* subscribeToMessages are started.
OpenGroupChat ==
    /\ chat.pc = "closed" /\ gchat.pc = "closed"
    /\ gchat' = [NoChat EXCEPT !.pc = "open", !.load = "sent",
                                !.userId = SubscriptionUserId(Me)]
    /\ channels' = [channels EXCEPT !["group"] = "joining"]
    /\ UNCHANGED <<profiles, swipes, matches, calls, last, ncalls, faults,
                   candidates, messagingVars, accountVars, relayed, badge, chat>>

\* loadMessages of GroupChatScreen: setMessages(msgs) with the list that
\* getGroupMessages resolved with, console.error if it rejected
GroupLoadDone ==
    /\ reply.op = "getGroupMessages"
    /\ reply' = NoReply
    /\ gchat' = IF gchat.pc = "open"
                THEN [gchat EXCEPT !.load = IF reply.result = "ok" THEN "done" ELSE "error",
                                   !.list = IF reply.result = "ok" THEN reply.list ELSE @]
                ELSE gchat
    /\ UNCHANGED <<profiles, swipes, matches, calls, last, ncalls, faults,
                   candidates, messages, group_members, group_messages,
                   accountVars, channels, relayed, badge, chat>>

(* ----------------------------- specification -------------------------- *)

City(c) == [u \in Users |-> [city |-> IF u = 1 THEN "NY"
                                     ELSE IF u = 3 THEN "LA" ELSE c,
                            profile_visibility |-> "public"]]

\* no profile is being updated, no user is signed up, no screen is mounted
InitClient ==
    /\ kids = EmptyBag
    /\ user_interests = EmptyBag
    /\ updates = [u \in Users |-> NoUpdate]
    /\ auth_users = {}
    /\ channels = NoChannels
    /\ relayed = EmptyBag
    /\ badge = NoBadge
    /\ chat = NoChat
    /\ gchat = NoChat

InitStore ==
    /\ swipes = EmptyBag
    /\ matches = EmptyBag
    /\ calls = [s \in Sessions |-> Idle]
    /\ last = NoCall
    /\ ncalls = 0
    /\ faults = 0
    /\ candidates = NoCandidates
    /\ messages = EmptyBag
    /\ group_members = EmptyBag
    /\ group_messages = EmptyBag
    /\ reply = NoReply
    /\ InitClient

Init == profiles = City("NY") /\ InitStore

Next ==
    \/ \E s \in Sessions, a \in Swipers, b \in Users, d \in Directions :
          RecordSwipe(s, a, b, d)
    \/ \E s \in Sessions : CheckReciprocal(s)
    \/ \E s \in Sessions : CreateMatch(s)

\* The swipe recorder and match detector under concurrent sessions.
Spec == Init /\ [][Next]_vars

InitCandidates == profiles \in {City(c) : c \in Cities \cup {NullCity}} /\ InitStore

\* One session that swipes, and the candidate filter.  What the filter
\* returns is fixed when its reads are done, so no step of the store is
\* interleaved between its completion and the caller taking the result.
NextCandidates ==
    \/ /\ candidates = NoCandidates
       /\ \/ \E a \in Swipers, b \in Users, d \in Directions : RecordSwipe(1, a, b, d)
          \/ CheckReciprocal(1)
          \/ CreateMatch(1)
    \/ \E u \in Users, limit \in Limits : GetPotentialMatches(u, limit)
    \/ FetchMatchesDone

SpecCandidates == InitCandidates /\ [][NextCandidates]_vars

\* Users 1 and 2 are matched, user 1 has liked user 3; user 3 has chosen her
\* profile_visibility at onboarding.
Visibility(v) ==
    [u \in Users |-> [city |-> "NY",
                      profile_visibility |-> IF u = 3 THEN v ELSE "public"]]

InitMessaging ==
    /\ profiles \in {Visibility(v) : v \in {"public", "matches_only"}}
    /\ swipes = SetToBag({SwipeRow(1, 2, "right"), SwipeRow(2, 1, "right"),
                          SwipeRow(1, 3, "right")})
    /\ matches = SetToBag({MatchRow(1, 2)})
    /\ calls = [s \in Sessions |-> Idle]
    /\ last = NoCall
    /\ ncalls = 0
    /\ faults = 0
    /\ candidates = NoCandidates
    /\ messages = EmptyBag
    /\ group_members = EmptyBag
    /\ group_messages = EmptyBag
    /\ reply = NoReply
    /\ InitClient

\* The messaging service, and user 3 liking user 1 back.  A call's result is
\* fixed when its requests are done, so no step of the store is interleaved
\* between its completion and the caller taking the result; on taking the
\* list of conversations the caller may first ask for it once more, and then
\* no request fails.  User 3 likes user 1 back until her Swipe row is stored.
NextMessaging ==
    \/ /\ reply = NoReply
       /\ NumSwipes(swipes, 3, 1) = 0
       /\ RecordSwipe(1, 3, 1, "right")
    \/ reply = NoReply /\ CheckReciprocal(1)
    \/ reply = NoReply /\ CreateMatch(1)
    \/ \E s \in Users : \E r \in Users \ {s} :
          reply = NoReply /\ SendMessage(s, r, 1)
    \/ \E x \in Users : \E u \in Users \ {x} :
          reply = NoReply /\ MarkMessagesAsRead(x, u)
    \/ \E r \in BagToSet(messages) : \E uid \in {r.sender_id, r.recipient_id} :
          reply = NoReply /\ MarkAsRead(uid, r)
    \/ \E u \in Users :
          reply = NoReply /\ GetTotalUnreadCount(u)
    \/ \E u \in Users :
          reply = NoReply /\ GetConversations(u)
    \/ \E u \in Users :
          /\ reply.op = "getConversations" /\ reply.user = u
          /\ reply.result = "ok" /\ reply.fault = "none" /\ ~reply.again
          /\ GetConversations(u)
          /\ reply'.fault = "none"
    \/ TakeReply

SpecMessaging == InitMessaging /\ [][NextMessaging]_vars

\* The store holds the membership rows its administration has put there: the
\* service creates none (see JoinGroup).
Seeded ==
    {SetToBag(rows) : rows \in SUBSET {MemberRow(1, 1, "member"),
                                       MemberRow(2, 1, "admin"),
                                       MemberRow(1, 2, "pending")}}

InitGroups ==
    /\ profiles = Visibility("public")
    /\ swipes = SetToBag({SwipeRow(1, 2, "right"), SwipeRow(2, 1, "right")})
    /\ matches = SetToBag({MatchRow(1, 2)})
    /\ calls = [s \in Sessions |-> Idle]
    /\ last = NoCall
    /\ ncalls = 0
    /\ faults = 0
    /\ candidates = NoCandidates
    /\ messages = EmptyBag
    /\ group_members \in Seeded
    /\ group_messages = EmptyBag
    /\ reply = NoReply
    /\ InitClient

\* The group service, and sendMessage beside sendGroupMessage; a call that
\* resolved may be repeated by its caller.
NextGroups ==
    \/ \E u \in Users, g \in Groups :
          reply = NoReply /\ JoinGroup(u, g)
    \/ \E u \in Users, g \in Groups :
          reply = NoReply /\ LeaveGroup(u, g)
    \/ \E u \in Users, g \in Groups, len \in Lengths :
          reply = NoReply /\ SendGroupMessage(u, g, len)
    \/ \E s \in Users, r \in Users, len \in Lengths :
          reply = NoReply /\ SendMessage(s, r, len)
    \/ Retry
    \/ TakeReply

SpecGroups == InitGroups /\ [][NextGroups]_vars

\* The reads of the group service beside its writes and the soft delete.
NextGroupReads ==
    \/ \E u \in Users, g \in Groups :
          reply = NoReply /\ SendGroupMessage(u, g, 1)
    \/ \E r \in BagToSet(group_messages), uid \in Users :
          reply = NoReply /\ SoftDelete(uid, r)
    \/ \E u \in Users, g \in Groups :
          reply = NoReply /\ LeaveGroup(u, g)
    \/ \E u \in Users, city \in Cities \cup {NoCity} :
          reply = NoReply /\ GetGroups(u, city)
    \/ \E uid \in Users, g \in Groups :
          reply = NoReply /\ GetGroupMessages(uid, g)
    \/ TakeReply

SpecGroupReads == InitGroups /\ [][NextGroupReads]_vars

\* AppNavigator: MainTabs stays mounted under the Chat and GroupChat screens
\* of the stack.  Me and Peer are matched and both are members of Room.
InitScreens ==
    /\ profiles = Visibility("public")
    /\ swipes = SetToBag({SwipeRow(Me, Peer, "right"), SwipeRow(Peer, Me, "right")})
    /\ matches = SetToBag({MatchRow(Me, Peer)})
    /\ calls = [s \in Sessions |-> Idle]
    /\ last = NoCall
    /\ ncalls = 0
    /\ faults = 0
    /\ candidates = NoCandidates
    /\ messages = EmptyBag
    /\ group_members = SetToBag({MemberRow(Room, Me, "member"),
                                 MemberRow(Room, Peer, "member")})
    /\ group_messages = EmptyBag
    /\ reply = NoReply
    /\ InitClient

\* The navigator of Me beside the screens opening and closing, the relay,
\* Peer sending and Me reading.  The relay and the screens' own steps are
\* interleaved with the calls; the result of a call is taken before the next
\* call is made.
NextBadge ==
    \/ MountNavigator
    \/ \E c \in Channels : Subscribed(c)
    \/ Tick
    \/ badge.fetches > 0 /\ reply = NoReply /\ GetTotalUnreadCount(Me)
    \/ SetUnreadCount
    \/ \E ch \in Pending(relayed) : Relay(ch)
    \/ OpenChat
    \/ OpenGroupChat
    \/ chat.mark /\ reply = NoReply /\ MarkMessagesAsRead(Peer, Me)
    \/ MarkDone
    \/ CloseChat
    \/ reply = NoReply /\ SendMessage(Peer, Me, 1)
    \/ reply.op = "sendMessage" /\ TakeReply

SpecBadge == InitScreens /\ [][NextBadge]_vars

\* ChatScreen of Me, the relay, and Peer sending.
NextChat ==
    \/ OpenChat
    \/ \E c \in Channels : Subscribed(c)
    \/ \E ch \in Pending(relayed) : Relay(ch)
    \/ LoadMessages
    \/ LoadDone
    \/ chat.mark /\ reply = NoReply /\ MarkMessagesAsRead(Peer, Me)
    \/ MarkDone
    \/ chat.pc = "open" /\ reply = NoReply /\ SendMessage(Me, Peer, 1)
    \/ SendDone
    \/ CloseChat
    \/ reply = NoReply /\ SendMessage(Peer, Me, 1)
    \/ reply.op = "sendMessage" /\ reply.sender = Peer /\ TakeReply

SpecChat == InitScreens /\ [][NextChat]_vars

\* GroupChatScreen of Me, the relay, and Peer sending to the group.
NextGroupChat ==
    \/ OpenGroupChat
    \/ \E c \in Channels : Subscribed(c)
    \/ \E ch \in Pending(relayed) : Relay(ch)
    \/ gchat.load = "sent" /\ reply = NoReply /\ GetGroupMessages(Me, Room)
    \/ GroupLoadDone
    \/ gchat.pc = "open" /\ reply = NoReply /\ SendGroupMessage(Me, Room, 1)
    \/ SendDone
    \/ CloseChat
    \/ reply = NoReply /\ SendGroupMessage(Peer, Room, 1)
    \/ reply.op = "sendGroupMessage" /\ reply.sender = Peer /\ TakeReply

SpecGroupChat == InitScreens /\ [][NextGroupChat]_vars

\* what the first user submits, and the second: ages in and out of the
\* CHECK, twins, a tag twice
KidsLists == {Undefined, Given(<<>>), Given(<<2>>), Given(<<2, 2>>), Given(<<2, 19>>)}
InterestsLists == {Undefined, Given(<<>>), Given(<<"a">>), Given(<<"a", "b">>),
                   Given(<<"a", "a">>)}
Submitted(u) ==
    IF u = 1
    THEN {ProfileData("NY", k, i) : k \in KidsLists, i \in InterestsLists}
    ELSE {ProfileData("LA", Given(<<5>>), Given(<<"b">>))}

\* Sign-up, and the profile updates of two users side by side, each user
\* with one call at a time.  The answer of signUp is taken before the next
\* step of the store.
NextAccount ==
    \/ \E u \in Swipers, accepted \in BOOLEAN, len \in {MinPassword - 1, MinPassword} :
          reply = NoReply /\ SignUp(u, accepted, len)
    \/ TakeReply
    \/ \E u \in Swipers : \E data \in Submitted(u) :
          reply = NoReply /\ UpdateProfile(u, data)
    \/ \E u \in Swipers : reply = NoReply /\ DeleteKids(u)
    \/ \E u \in Swipers : reply = NoReply /\ InsertKids(u)
    \/ \E u \in Swipers : reply = NoReply /\ DeleteInterests(u)
    \/ \E u \in Swipers : reply = NoReply /\ InsertInterests(u)
    \/ \E u \in Swipers : reply = NoReply /\ UpdateProfileDone(u)

SpecAccount == Init /\ [][NextAccount]_vars

(* ------------------------------- claims -------------------------------- *)

Called == last # NoCall
Returned_Null == last.result = "ok" /\ last.ret = NoMatch

\* C1: in every reachable state, under every interleaving of recordSwipe
\* calls, the matches table holds at most one row per unordered pair of users.
C1_AtMostOneMatch ==
    \A a \in Users, b \in Users : NumMatches(matches, a, b) <= 1

\* Two concurrent right-swipes on each other both reached the insert into
\* matches; the second insert was rejected and one row is stored.
C1_Witness ==
    /\ last.matchErr = "23505"
    /\ NumMatches(matches, last.swiper, last.swiped) = 1

\* C2: a call whose insert into matches hits the uniqueness violation
\* resolves with the existing Match row; it does not reject.
C2_RaceReturnsExistingMatch ==
    last.matchErr = "23505" =>
        /\ last.result = "ok"
        /\ last.ret # NoMatch
        /\ CopiesIn(last.ret, matches) = 1

\* C3: a call recordSwipe(B, A, right) between distinct users that starts when
\* recordSwipe(A, B, right) has stored its row and completed, with no Swipe row
\* of (B, A) stored before and no store request of it failing, resolves with
\* the Match row (min(A,B), max(A,B)), and that row is the one row of the pair.
C3_MutualLikeOneCanonicalMatch ==
    (/\ Called
     /\ last.direction = "right" /\ last.swiper # last.swiped
     /\ last.recip /\ ~last.dup /\ last.alone /\ last.fault = "none")
    => LET a == last.swiper
           b == last.swiped
           lo == IF a < b THEN a ELSE b
           hi == IF a < b THEN b ELSE a
       IN  /\ last.result = "ok"
           /\ last.ret = MatchRow(lo, hi)
           /\ last.ret.user1_id < last.ret.user2_id
           /\ CopiesIn(last.ret, matches) = 1
           /\ NumMatches(matches, a, b) = 1

\* The larger user completed the pair: the row is stored smaller id first.
C3_Witness ==
    /\ last.swiper = 2 /\ last.swiped = 1 /\ last.direction = "right"
    /\ last.recip /\ ~last.dup /\ last.alone /\ last.fault = "none"
    /\ last.ret = MatchRow(1, 2)
    /\ NumMatches(matches, 1, 2) = 1

\* C4: a Match row between a and b is stored only if right-swipe rows (a, b)
\* and (b, a) both are; a call resolves with a Match only if it stored that
\* row; and a call none of whose store requests failed resolves with null
\* when it is a left swipe or when no right-swipe row of the reverse direction
\* is stored.
C4_MatchOnlyOnMutualRight ==
    /\ \A a \in Users, b \in Users :
          NumMatches(matches, a, b) > 0 =>
              /\ CopiesIn(SwipeRow(a, b, "right"), swipes) > 0
              /\ CopiesIn(SwipeRow(b, a, "right"), swipes) > 0
    /\ last.ret # NoMatch =>
          /\ last.direction = "right"
          /\ CopiesIn(last.ret, matches) > 0
          /\ {last.ret.user1_id, last.ret.user2_id} = {last.swiper, last.swiped}
    /\ (/\ Called /\ last.fault = "none"
        /\ \/ last.direction = "left"
           \/ CopiesIn(SwipeRow(last.swiped, last.swiper, "right"), swipes) = 0)
       => Returned_Null

\* User 1 passed on user 2, then user 2 liked user 1: null, and no Match row.
C4_Witness ==
    /\ last.swiper = 2 /\ last.swiped = 1 /\ last.direction = "right"
    /\ last.wrote /\ last.fault = "none" /\ Returned_Null
    /\ CopiesIn(SwipeRow(1, 2, "left"), swipes) = 1
    /\ NumMatches(matches, 1, 2) = 0

\* C5: the swipes table holds at most one row per ordered (swiper, swiped)
\* pair; a stored Swipe row is never removed or changed, so the pair keeps the
\* direction stored first; and a call that starts when a row of its ordered
\* pair is stored leaves both tables as they are and, unless its insert fails
\* for a reason other than the duplicate, resolves with null.
C5_OneSwipePerOrderedPair ==
    /\ [](\A a \in Users, b \in Users : NumSwipes(swipes, a, b) <= 1)
    /\ [][\A a \in Users, b \in Users, d \in Directions :
             CopiesIn(SwipeRow(a, b, d), swipes') >= CopiesIn(SwipeRow(a, b, d), swipes)]_vars
    /\ [][(/\ ncalls' # ncalls
            /\ \A s \in Sessions : calls'[s].pc = calls[s].pc
            /\ last'.dup)
           => (swipes' = swipes /\ matches' = matches)]_vars
    /\ []((Called /\ last.dup) =>
             /\ ~last.wrote /\ last.matchErr = "none" /\ last.ret = NoMatch
             /\ last.fault = "none" => last.result = "ok")

\* A left swipe on a pair whose stored row is a right swipe resolved with null.
C5_Witness ==
    /\ last.dup /\ last.fault = "none" /\ Returned_Null
    /\ last.direction = "left"
    /\ CopiesIn(SwipeRow(last.swiper, last.swiped, "right"), swipes) = 1
    /\ NumSwipes(swipes, last.swiper, last.swiped) = 1

\* C6 as stated: of two calls in a row with identical arguments that both
\* resolve, no store request failing, the second resolves with the value of
\* the first, and one Swipe row of the pair is stored.
C6_SecondCallReturnsSameValue ==
    (/\ Called /\ last.again
     /\ last.fault = "none" /\ last.prev.fault = "none"
     /\ last.result = "ok" /\ last.prev.result = "ok")
    => /\ NumSwipes(swipes, last.swiper, last.swiped) = 1
       /\ last.ret = last.prev.ret

\* C6 as amended: of two calls in a row with identical arguments, neither
\* insert into swipes failing for a reason other than the duplicate, the
\* second resolves with null and one Swipe row of the pair is stored; so the
\* two calls end alike exactly when the first resolved with null.
C6_SecondCallReturnsNull ==
    (/\ Called /\ last.again
     /\ last.fault # "insert" /\ last.prev.fault # "insert")
    => /\ NumSwipes(swipes, last.swiper, last.swiped) = 1
       /\ last.dup /\ ~last.wrote
       /\ Returned_Null
       /\ (last.ret = last.prev.ret /\ last.result = last.prev.result)
             <=> (last.prev.result = "ok" /\ last.prev.ret = NoMatch)

\* The first call completed a mutual like and resolved with the Match; the
\* second, with the same arguments, resolved with null.
C6_Witness ==
    /\ Called /\ last.again /\ last.fault = "none"
    /\ last.prev.result = "ok" /\ last.prev.ret # NoMatch
    /\ Returned_Null
    /\ NumSwipes(swipes, last.swiper, last.swiped) = 1

\* C7: a call recordSwipe for a pair that starts when right-swipe rows of both
\* directions are stored, no Match row is and no other call for the pair is
\* in flight, and none of whose store requests fails, leaves the Match stored.
C7_OrphanedPairIsRepaired ==
    (Called /\ last.orphan /\ last.fault = "none")
    => NumMatches(matches, last.swiper, last.swiped) > 0

\* C8: a call between two distinct users that rejects has left no Swipe row
\* of its own in the store.  (The call of a user on herself is C9.)
C8_ErrorLeavesNoSwipe ==
    (Called /\ last.result = "error" /\ last.swiper # last.swiped) => ~last.wrote

\* C9: no Swipe row and no Match row of a user with herself is ever stored.
C9_NoSelfSwipe ==
    \A a \in Users : NumSwipes(swipes, a, a) = 0 /\ NumMatches(matches, a, a) = 0

\* C10: a call getPotentialMatches(U, limit) that resolves returns neither U
\* nor any profile U has a stored Swipe row on.
C10_SwipedNeverReturned ==
    (candidates # NoCandidates /\ ~candidates.error)
    => candidates.result \cap
          ({candidates.user} \cup SwipedIds(swipes, candidates.user)) = {}

RECURSIVE SumUnreadCount(_)
SumUnreadCount(q) ==
    IF q = <<>> THEN 0 ELSE Head(q).unread_count + SumUnreadCount(Tail(q))

\* C12: the number getTotalUnreadCount(U) resolves with is not negative and
\* is the sum, over the Matches of U, of the unread messages the other user
\* sent U; the unread_count fields of the list getConversations(U) resolves
\* with add up to the number of unread messages addressed to U.
C12_UnreadCountConservation ==
    /\ reply.op = "getTotalUnreadCount" =>
          /\ reply.count >= 0
          /\ reply.count =
                SumCopies(messages,
                    UNION {UnreadFrom(messages, IF m.user1_id = reply.user
                                                THEN m.user2_id ELSE m.user1_id,
                                      reply.user) :
                              m \in MatchesOf(matches, reply.user)})
    /\ (reply.op = "getConversations" /\ reply.result = "ok") =>
          SumUnreadCount(reply.list) = Unread(messages, reply.user)

\* C13: every stored Message has a Match row between its sender and its
\* recipient; a call sendMessage between two users with no Match row rejects
\* and leaves the messages table as it was; a call between two users with a
\* Match row, with content within the bounds and no failing request,
\* resolves and has stored its row.
C13_MessageOnlyBetweenMatched ==
    /\ [](\A r \in BagToSet(messages) :
             NumMatches(matches, r.sender_id, r.recipient_id) > 0)
    /\ [][(reply'.op = "sendMessage" /\ reply.op = "none") =>
            LET matched == NumMatches(matches, reply'.sender, reply'.recipient) > 0
                row == MessageRow(reply'.sender, reply'.recipient, 0, Null)
                stored(t) == [row EXCEPT !.created_at = t]
            IN  /\ ~matched => reply'.result = "error"
                /\ reply'.result = "error" => messages' = messages
                /\ (/\ matched /\ reply'.code # "fault"
                    /\ reply'.len >= 1 /\ reply'.len <= MaxLength)
                   => /\ reply'.result = "ok"
                      /\ \E t \in Times : messages' = Insert(messages, stored(t))]_vars

\* User 3 has liked user 1 back, recordSwipe has created their Match, and her
\* message to user 1 is stored.
C13_Witness ==
    /\ last.ret = MatchRow(1, 3)
    /\ reply.op = "sendMessage" /\ reply.sender = 3 /\ reply.recipient = 1
    /\ reply.result = "ok"
    /\ \E t \in Times : CopiesIn(MessageRow(3, 1, t, Null), messages) > 0

\* the unread_count of u's conversation with x
UnreadCount(ms, x, u) == SumCopies(ms, UnreadFrom(ms, x, u))

\* C14: when a call markMessagesAsRead(X, U) has resolved, no unread message
\* of X to U is stored (so a second call finds none and leaves the count 0)
\* and the unread counts of U's conversations with the other users are what
\* they were; a message X then sends U makes the count of 0 a count of 1.
C14_ThreadReadThenOne ==
    /\ [][(reply'.op = "markMessagesAsRead" /\ reply.op = "none") =>
            /\ UnreadCount(messages', reply'.sender, reply'.recipient) = 0
            /\ \A y \in Users \ {reply'.sender} :
                  UnreadCount(messages', y, reply'.recipient) =
                      UnreadCount(messages, y, reply'.recipient)]_vars
    /\ [][(/\ reply'.op = "sendMessage" /\ reply.op = "none"
            /\ reply'.result = "ok"
            /\ UnreadCount(messages, reply'.sender, reply'.recipient) = 0)
           => UnreadCount(messages', reply'.sender, reply'.recipient) = 1]_vars

\* C15: no step removes a Message or changes its sender, recipient or
\* creation time, and a Message whose read_at is set keeps that read_at.
C15_ReadAtSetOnce ==
    [][\A s \in Users, r \in Users, c \in Times :
          /\ SumCopies(messages', {MessageRow(s, r, c, t) : t \in Times \cup {Null}})
                >= SumCopies(messages, {MessageRow(s, r, c, t) : t \in Times \cup {Null}})
          /\ \A t \in Times :
                CopiesIn(MessageRow(s, r, c, t), messages')
                    >= CopiesIn(MessageRow(s, r, c, t), messages)]_vars

\* the participant of Match row m that is not u
Other(m, u) == IF m.user1_id = u THEN m.user2_id ELSE m.user1_id

\* C16: a call getConversations(U) whose matches query does not fail resolves
\* with a list that has one entry for every Match row of U and no other
\* entry, the entry's other_user being the participant that is not U; the
\* entry of a Match with no message between the two has no last message and
\* unread_count 0.
C16_OneEntryPerMatch ==
    (reply.op = "getConversations" /\ reply.fault # "matches")
    => LET u == reply.user
           q == reply.list
       IN  /\ reply.result = "ok"
           /\ Len(q) = Cardinality(MatchesOf(matches, u))
           /\ \A m \in MatchesOf(matches, u) :
                 \E i \in 1..Len(q) : q[i].other_user = Other(m, u)
           /\ \A i \in 1..Len(q) :
                 Between(messages, u, q[i].other_user) = {} =>
                     q[i].last_message = NoMessage /\ q[i].unread_count = 0

\* C17: the list a call getConversations(U) resolves with is in descending
\* order of the last messages' creation times, an entry with no last message
\* counting as the earliest; and a second call on the same state of the
\* store, no request of either failing, resolves with the entries in the
\* same order.
C17_DeterministicOrder ==
    (reply.op = "getConversations" /\ reply.result = "ok")
    => LET q == reply.list
           p == reply.prev.list
       IN  /\ \A i \in 1..Len(q), j \in 1..Len(q) :
                 i < j => q[i].last_message.created_at >= q[j].last_message.created_at
           /\ (reply.again /\ reply.prev.result = "ok") =>
                 /\ Len(p) = Len(q)
                 /\ \A i \in 1..Len(q) : p[i].other_user = q[i].other_user

\* C18: in the list a call getConversations(U) resolves with, no request of
\* it failing, the last_message of an entry whose two users have exchanged
\* messages is one of these messages and none of them was created later; and
\* a second call on the same state of the store resolves with the same
\* last_message for the entry.
C18_LastMessageIsLatest ==
    (reply.op = "getConversations" /\ reply.result = "ok" /\ reply.fault = "none")
    => LET u == reply.user
           q == reply.list
           p == reply.prev.list
       IN  /\ \A i \in 1..Len(q) :
                 LET b == Between(messages, u, q[i].other_user)
                 IN  b # {} =>
                        /\ q[i].last_message \in b
                        /\ \A x \in b : x.created_at <= q[i].last_message.created_at
           /\ (reply.again /\ reply.prev.result = "ok") =>
                 \A i \in 1..Len(q), j \in 1..Len(p) :
                    q[i].other_user = p[j].other_user =>
                        q[i].last_message = p[j].last_message

C20_JoinGroupIdempotent ==
    /\ \A g \in Groups, u \in Users : NumMembers(group_members, g, u) <= 1
    /\ (reply.op = "joinGroup" /\ reply.code # "fault") =>
          /\ reply.result = "ok"
          /\ NumMembers(group_members, reply.group, reply.user) = 1

\* C21: a call joinGroup(U, G) by a user who holds no membership row of G,
\* the request not failing, resolves and has stored a row of (G, U) with role
\* member, so that the store then accepts a group message of U in G.
C21_JoinCreatesMember ==
    [][(/\ reply.op = "none" /\ reply'.op = "joinGroup"
        /\ reply'.code # "fault"
        /\ NumMembers(group_members, reply'.group, reply'.user) = 0)
       => /\ reply'.result = "ok"
          /\ CopiesIn(MemberRow(reply'.group, reply'.user, "member"), group_members') = 1
          /\ NumMembers(group_members', reply'.group, reply'.user) = 1
          /\ GroupMessagesInsertError(group_members', reply'.group, reply'.user, 1)
                = "none"]_vars

\* C22: a call getGroups(U, city) whose groups query does not fail resolves
\* with a list that holds once every group whose city is the filter or that
\* has no city (every group when no filter is given) and no other group,
\* and the entry of a group has is_member = true exactly when a row of
\* (group, U) is stored in group_members, whatever its role.
C22_ListGroups ==
    (reply.op = "getGroups" /\ reply.fault # "groups")
    => /\ reply.result = "ok"
       /\ \A g \in Groups :
             SumCopies(reply.list, {e \in BagToSet(reply.list) : e.id = g}) =
                 IF \/ reply.city = NoCity
                    \/ groups[g].city = reply.city
                    \/ groups[g].city = NullCity
                 THEN 1 ELSE 0
       /\ \A e \in BagToSet(reply.list) :
             e.is_member = (NumMembers(group_members, e.id, reply.user) > 0)

\* the number of rows of group_messages of group g sent by u at c, soft-deleted or not
Stored(gms, g, u, c) ==
    SumCopies(gms, {GroupMessageRow(g, u, c, d) : d \in Times \cup {Null}})

C24_StoreErrorsPropagate ==
    /\ last.fault # "none" => last.result = "error"
    /\ candidates.fault # "none" => candidates.error
    /\ reply.op = "getConversations" =>
          (reply.fault # "none" => reply.result = "error")
    /\ reply.op = "getTotalUnreadCount" => reply.fault = "none"
    /\ reply.op = "markMessagesAsRead" => reply.fault = "none"

\* C25: a caller-level retry of sendMessage, sendGroupMessage, joinGroup or
\* leaveGroup, a call repeated with the same arguments right after it
\* resolved, leaves the messages, group_messages and group_members tables as
\* the first call left them.
C25_RetryIsSafe ==
    [][(reply.op # "none" /\ reply'.op # "none") =>
          /\ messages' = messages
          /\ group_messages' = group_messages
          /\ group_members' = group_members]_vars

\* the number of times x is in a list
Count(list, x) == Cardinality({i \in 1..Len(list) : list[i] = x})

\* the rows of user u in table, of column col, are those of the list
Exactly(table, u, col, list) ==
    /\ \A r \in BagToSet(table) :
          r.user_id = u => CopiesIn(r, table) = Count(list, r[col])
    /\ \A i \in 1..Len(list) :
          \E r \in BagToSet(table) : r.user_id = u /\ r[col] = list[i]

\* the rows of a table that are not of user u
OfOthers(table, u) ==
    LET rows == {r \in BagToSet(table) : r.user_id # u}
    IN  [r \in rows |-> CopiesIn(r, table)]

C27_SignUpRejected ==
    (reply.op = "signUp" /\ (~reply.accepted \/ reply.len < MinPassword))
    => /\ reply.error # "none"
       /\ reply.user = Null
       /\ ~reply.session
       /\ ~reply.called

\* A sign-up with the guidelines accepted and a password of 7 characters has
\* been rejected, after another user has signed up.
C27_Witness ==
    /\ reply.op = "signUp" /\ reply.accepted /\ reply.len = MinPassword - 1
    /\ reply.error = "password"
    /\ auth_users # {}

\* C28: while the navigator is mounted and its subscription has been
\* joined, every insert and every read_at update of a message addressed to
\* the signed-in user that the relay passes on starts a fetchUnreadCount,
\* also after a chat or group-chat screen has been opened and closed; and
\* unreadCount changes to nothing but the count that a getTotalUnreadCount
\* call resolved with.
C28_BadgeRefetched ==
    /\ [][\A ch \in Pending(relayed) :
             (/\ relayed' = relayed (+) SetToBag({ch})
              /\ ch.table = "messages" /\ ch.new.recipient_id = Me
              /\ badge.mounted /\ badge.subscribed)
                => badge'.fetches = badge.fetches + 1]_vars
    /\ [][badge'.count # badge.count =>
             /\ reply.op = "getTotalUnreadCount"
             /\ badge'.count = reply.count]_vars

\* the number of displayed messages from s to r created at t, and of stored
Shown(list, s, r, t) ==
    Cardinality({i \in 1..Len(list) :
        list[i].sender_id = s /\ list[i].recipient_id = r /\ list[i].created_at = t})
Kept(ms, s, r, t) ==
    SumCopies(ms, {x \in BagToSet(ms) :
        x.sender_id = s /\ x.recipient_id = r /\ x.created_at = t})

\* ChatScreen is open, loadMessages has set the list, the channel is joined,
\* the relay has passed on every change and no send is in flight.
ChatSettled ==
    /\ chat.pc = "open" /\ chat.load = "done"
    /\ channels["chat"] = "joined"
    /\ Pending(relayed) = {}
    /\ reply = NoReply

\* C29: in ChatScreen, once the load and all pending notifications have been
\* processed, the displayed list holds every stored message of the
\* conversation exactly once, under every interleaving of the load, the
\* start of the subscription, the notifications and the user's sends.
C29_ChatListComplete ==
    ChatSettled =>
        \A s \in {Me, Peer}, r \in {Me, Peer}, t \in Times :
            Shown(chat.list, s, r, t) = Kept(messages, s, r, t)

\* the number of displayed messages of group g sent by u at t
GroupShown(list, g, u, t) ==
    Cardinality({i \in 1..Len(list) :
        list[i].group_id = g /\ list[i].sender_id = u /\ list[i].created_at = t})

\* C30: in GroupChatScreen a message sent by the signed-in user is displayed
\* once, not more often than it is stored, also when the relay delivers the
\* INSERT of that message to the sender's own subscription: handleSend adds
\* it to the list, and the notification of it adds nothing.
C30_OwnMessageOnce ==
    /\ [](gchat.pc = "open" =>
            \A t \in Times :
                GroupShown(gchat.list, Room, Me, t) <= Stored(group_messages, Room, Me, t))
    /\ [][\A ch \in Pending(relayed) :
             (/\ relayed' = relayed (+) SetToBag({ch})
              /\ ch.table = "group_messages" /\ ch.new.sender_id = Me)
                => gchat'.list = gchat.list]_vars
    /\ [][(reply.op = "sendGroupMessage" /\ reply.sender = Me /\ reply.result = "ok"
              /\ reply' = NoReply /\ gchat'.pc = "open")
                => gchat'.list = Append(gchat.list, reply.data)]_vars

====
